---- MODULE Spec2Model ----
(***************************************************************************)
(* Model of src/game.py: the swadge vote arbitration (GameComponent).      *)
(*                                                                         *)
(* The program is a single asyncio event loop.  A coroutine runs without   *)
(* interruption until it awaits a future that is not yet resolved: the     *)
(* transport's subscribe, the gather over unsubscribe, and the remote      *)
(* game.register call.  kick, set_lights, push_button and                  *)
(* calculate_buttons are `async def` without such an await, so awaiting    *)
(* them never yields to the loop.  Every action below is one such          *)
(* uninterrupted segment of a handler.                                     *)
(***************************************************************************)
EXTENDS Integers, Sequences, FiniteSets, Bags, TLC

(* ------------------------------ bounds --------------------------------- *)
NumBadges == 3
NumLifeBadges == 2
NumQuitBadges == 1
MaxTasks == 2
MaxRegisters == 1
MaxSubs == 2
VoteTasks == 1
VoteSubs == 1
MaxPushes == 3
MaxPushesCounter == 102

(* ------------------------- program constants --------------------------- *)
QUIT_TIME == 1500
PRESS_LIMIT == 100
SAVE_LIMIT == 100

None == "None"
START == "start"

\* line 207: the keys of totals, in insertion order
Buttons == <<"up", "down", "left", "right", "select", "start", "a", "b">>
ButtonSet == {Buttons[i] : i \in 1..Len(Buttons)}

\* lines 12-21
keycodes == [x \in ButtonSet |->
               CASE x = "up" -> "Up" [] x = "down" -> "Down"
                 [] x = "left" -> "Left" [] x = "right" -> "Right"
                 [] x = "select" -> "BackSpace" [] x = "start" -> "Return"
                 [] x = "a" -> "x" [] x = "b" -> "z"]

Badges == 1..NumBadges
LifeBadges == 1..NumLifeBadges
QuitBadges == 1..NumQuitBadges
\* the inputs the handlers are driven with
PressButtons == {"start", "a", "b"}
Times == {1, QUIT_TIME + 1, QUIT_TIME + 2}

VARIABLES
  players,         \* GameComponent.players: the dict, as its records in insertion order
  current_button,  \* GameComponent.current_button (the decided action)
  last_button,     \* GameComponent.last_button
  press_counter,   \* GameComponent.press_counter
  save_counter,    \* GameComponent.save_counter
  keys_down,       \* keys held down in the mGBA window (xdo)
  published,       \* per badge: the lights last published on badge.<id>.lights_static
  subs,            \* per badge: live press / release subscriptions on the transport
  handles_active,  \* per badge: whether the handles held by its registry record are active
  tasks,           \* suspended on_player_join / on_player_leave coroutines (a bag)
  reg,             \* the game_register coroutines
  pushes,          \* number of push_button calls so far
  saves,           \* number of Shift+F1 (save state) key sequences sent so far
  last             \* the handler segment that ran last, its inputs and what it did

shared == <<players, current_button, last_button, press_counter, save_counter>>
vars == <<players, current_button, last_button, press_counter, save_counter,
          keys_down, published, subs, handles_active, tasks, reg, pushes, saves, last>>

(* ------------------------------ PlayerInfo ----------------------------- *)
\* lines 75-95
PlayerInfo(badge_id) ==
  [badge_id |-> badge_id, current_button |-> None, start_press_at |-> 0,
   light_settings |-> "WHITE"]

\* line 97-98
on_start_press(p, timestamp) == [p EXCEPT !.start_press_at = timestamp]

\* the mutant of start_held: the comparison off by one
start_held_ge(p, timestamp) == timestamp - p.start_press_at >= QUIT_TIME

\* lines 100-108
start_held(p, timestamp) == timestamp - p.start_press_at > QUIT_TIME

(* ------------------------- the dict of players ------------------------- *)
Keys(ps) == {ps[i].badge_id : i \in DOMAIN ps}
\* players.get(badge_id): the position of the record, 0 when absent
IndexOf(ps, badge_id) ==
  IF badge_id \in Keys(ps)
  THEN CHOOSE i \in DOMAIN ps : ps[i].badge_id = badge_id
  ELSE 0
\* players[badge_id] = p: an existing key keeps its place, a new key goes last
DictSet(ps, p) ==
  IF p.badge_id \in Keys(ps)
  THEN [ps EXCEPT ![IndexOf(ps, p.badge_id)] = p]
  ELSE Append(ps, p)
\* del players[badge_id]
DictDel(ps, badge_id) == SelectSeq(ps, LAMBDA p : p.badge_id # badge_id)

(* --------------------------- calculate_buttons ------------------------- *)
\* lines 207-210
Totals(ps) ==
  [x \in ButtonSet |-> Cardinality({i \in DOMAIN ps : ps[i].current_button = x})]

\* lines 211-216: the scan over totals.keys()
RECURSIVE ScanMax(_, _, _, _)
ScanMax(totals, i, max, max_item) ==
  IF i > Len(Buttons) THEN [max |-> max, max_item |-> max_item]
  ELSE IF totals[Buttons[i]] > max
       THEN ScanMax(totals, i + 1, totals[Buttons[i]], Buttons[i])
       ELSE ScanMax(totals, i + 1, max, max_item)

\* the mutant of MaxItem: the tie-break by last_button left out
MaxItemNoTieBreak(ps, last_b) == ScanMax(Totals(ps), 1, 0, None).max_item

\* the mutant of MaxItem: the decided action is kept while it has the maximal count
MaxItemSticky(ps, last_b) ==
  LET totals == Totals(ps)
      scan == ScanMax(totals, 1, 0, None)
  IN IF current_button # None /\ totals[current_button] = scan.max THEN current_button
     ELSE IF last_b # None /\ totals[last_b] = scan.max THEN last_b ELSE scan.max_item

\* lines 207-219: the action calculate_buttons decides on
MaxItem(ps, last_b) ==
  LET totals == Totals(ps)
      scan == ScanMax(totals, 1, 0, None)
  IN IF last_b # None /\ totals[last_b] = scan.max THEN last_b ELSE scan.max_item

\* lines 231-240: the counters after one push_button, and the checkpoints it triggers
PushCounters(pc, sc) ==
  IF pc + 1 > PRESS_LIMIT
  THEN [press_counter |-> 0,
        save_counter |-> IF sc + 1 > SAVE_LIMIT THEN 0 ELSE sc + 1,
        saved |-> TRUE, backup |-> sc + 1 > SAVE_LIMIT]
  ELSE [press_counter |-> pc + 1, save_counter |-> sc, saved |-> FALSE, backup |-> FALSE]

\* lines 243-247 call by call: the keys that are down after the loop has handled
\* the first k entries of the key table, starting from the keys in held
RECURSIVE KeyWalk(_, _, _)
KeyWalk(k, held, button) ==
  IF k = 0 THEN held
  ELSE LET h == KeyWalk(k - 1, held, button) IN
       IF Buttons[k] = button THEN h \cup {keycodes[Buttons[k]]}
       ELSE h \ {keycodes[Buttons[k]]}
\* the largest number of keys down together at any point of that loop
KeysPeak(held, button) ==
  CHOOSE n \in 0..Len(Buttons) :
     /\ \E k \in 0..Len(Buttons) : Cardinality(KeyWalk(k, held, button)) = n
     /\ \A k \in 0..Len(Buttons) : Cardinality(KeyWalk(k, held, button)) <= n

\* the mutant of KeysDown: the key-up loop of lines 243-244 left out
KeysDownStuck(button) ==
  keys_down \cup {keycodes[i] : i \in {k \in ButtonSet : k = button}}

\* lines 243-247: the keys held down after push_button
KeysDown(button) == {keycodes[i] : i \in {k \in ButtonSet : k = button}}

\* the mutant of Lights: a player holding nothing is never shown as matching
LightsIdleRed(ps, decided) ==
  [i \in DOMAIN ps |->
     [ps[i] EXCEPT !.light_settings =
        IF ps[i].current_button = decided /\ decided # None THEN "GREEN" ELSE "RED"]]

\* lines 223-227
Lights(ps, decided) ==
  [i \in DOMAIN ps |->
     [ps[i] EXCEPT !.light_settings =
        IF ps[i].current_button = decided THEN "GREEN" ELSE "RED"]]

\* the mutant of Decide: the decision-changed test left out, push_button on every run
DecideAlways(max_item) == TRUE

\* line 220
Decide(max_item) == max_item # current_button

\* lines 206-247: calculate_buttons with push_button and set_lights, run on the
\* registry ps and the last_button last_b its caller has just written
calculate_buttons(ps, last_b) ==
  LET max_item == MaxItem(ps, last_b)
      changed == Decide(max_item)
      pb == PushCounters(press_counter, save_counter)
      decided == IF changed THEN max_item ELSE current_button
      lit == Lights(ps, decided)
  IN /\ current_button' = decided
     /\ press_counter' = (IF changed THEN pb.press_counter ELSE press_counter)
     /\ save_counter' = (IF changed THEN pb.save_counter ELSE save_counter)
     /\ keys_down' = (IF changed THEN KeysDown(max_item) ELSE keys_down)
     /\ pushes' = (IF changed THEN pushes + 1 ELSE pushes)
     /\ saves' = (IF changed /\ pb.saved THEN saves + 1 ELSE saves)
     /\ players' = lit
     /\ published' = [b \in Badges |->
                        IF b \in Keys(lit) THEN lit[IndexOf(lit, b)].light_settings
                        ELSE published[b]]

(* ------------------------- handlers' bookkeeping ----------------------- *)
\* what the segment that just ran was given and what it did
\* pressed is the button of the latest press handled for a registered player;
\* log is what the segment sent out, in the order of its statements; peak is the
\* largest number of keys down together while its push_button ran, 0 if none ran
NewEvent(op, badge_id, button, timestamp, result, kicked, pushed, pressed) ==
  [op |-> op, badge_id |-> badge_id, button |-> button, timestamp |-> timestamp,
   result |-> result, kicked |-> kicked, pushed |-> pushed, rerun |-> FALSE,
   interleaved |-> FALSE, resumed |-> FALSE, stale |-> FALSE, pressed |-> pressed,
   log |-> <<>>, peak |-> 0]
Event(op, badge_id, button, timestamp, result, kicked, pushed) ==
  NewEvent(op, badge_id, button, timestamp, result, kicked, pushed, last.pressed)

\* lines 220-222 and 231-247: the keys down together while push_button runs.  The
\* save sequences Shift+F1 and Shift+F2 (lines 235, 239) are sent, two keys each,
\* before the loop, while the key of the old decision is still down
Peak(max_item) ==
  LET pb == PushCounters(press_counter, save_counter)
      walk == KeysPeak(keys_down, max_item)
      save == Cardinality(keys_down) + 2
  IN IF ~Decide(max_item) THEN 0
     ELSE IF pb.saved /\ save > walk THEN save ELSE walk

\* lines 175-178 and 222-228: the kick, then push_button's keys, then the lights
Sent(kicked, pushed) ==
  (IF kicked THEN <<"game.kick">> ELSE <<>>)
    \o (IF pushed THEN <<"keys">> ELSE <<>>) \o <<"lights_static">>

\* what every player holds
Holdings(ps) == [i \in DOMAIN ps |-> ps[i].current_button]

\* calculate_buttons runs on ps and last_b right after a run of it, with no
\* player's current_button, the registry or last_button written in between
Rerun(ps, last_b) ==
  /\ last.op \in {"press", "release"} /\ last.result = "ok"
  /\ Holdings(ps) = Holdings(players)
  /\ last_b = last_button

\* stale: the record a suspended leave looked up has been replaced by a join since
Task(kind, badge_id, pc, parent, wrote) ==
  [kind |-> kind, badge_id |-> badge_id, pc |-> pc, parent |-> parent, wrote |-> wrote,
   stale |-> FALSE]

TaskSet == BagToSet(tasks)
JoinTasksOf(b) ==
  LET ts == {t \in TaskSet : t.kind = "join" /\ t.badge_id = b}
      RECURSIVE Sum(_)
      Sum(S) == IF S = {} THEN 0
                ELSE LET t == CHOOSE x \in S : TRUE IN CopiesIn(t, tasks) + Sum(S \ {t})
  IN Sum(ts)

\* players[badge_id] has been replaced by a new record: the suspended leaves of
\* the badge hold on to the old one
MarkStale(bag, badge_id) ==
  LET Hit(t) == t.kind = "leave" /\ t.badge_id = badge_id
      Mark(t) == IF Hit(t) THEN [t EXCEPT !.stale = TRUE] ELSE t
      Fresh(u) == [u EXCEPT !.stale = FALSE]
      Copies(t) == IF t \in BagToSet(bag) THEN CopiesIn(t, bag) ELSE 0
  IN [u \in {Mark(t) : t \in BagToSet(bag)} |->
        IF Hit(u) THEN Copies(u) + Copies(Fresh(u)) ELSE Copies(u)]

Idle == [pc |-> "idle", pending |-> 0, wrote |-> FALSE, intruded |-> FALSE]

\* a segment of a handler other than register coroutine `self` read or wrote the
\* registry or the arbitration state: every other register coroutine that has
\* written and has writes to come has been interleaved with
Intrude(rg, self) ==
  [r \in DOMAIN rg |->
     IF r # self /\ rg[r].pc = "gather" /\ rg[r].wrote
     THEN [rg[r] EXCEPT !.intruded = TRUE] ELSE rg[r]]

(* --------------------------- on_button_press --------------------------- *)
\* the mutant of on_button_press: the lookup of the player left out of the
\* decision, so that a press of an unknown badge is recorded and recomputed
on_button_press_unchecked(button, timestamp, badge_id) ==
  LET i == IndexOf(players, badge_id)
      ps == IF i = 0 THEN players
            ELSE [players EXCEPT ![i] =
                    IF button = START
                    THEN on_start_press([@ EXCEPT !.current_button = button], timestamp)
                    ELSE [@ EXCEPT !.current_button = button]]
  IN /\ last_button' = button
     /\ calculate_buttons(ps, button)
     /\ last' = [Event("press", badge_id, button, timestamp,
                       IF i = 0 THEN "UnknownPlayer" ELSE "ok", FALSE,
                       Decide(MaxItem(ps, button)))
                   EXCEPT !.pressed = IF i = 0 THEN @ ELSE button]
     /\ reg' = Intrude(reg, 0)
     /\ UNCHANGED <<subs, handles_active, tasks>>

\* lines 186-204
\* the mutant of on_button_press: line 203 left out, last_button not written
on_button_press_no_last(button, timestamp, badge_id) ==
  LET i == IndexOf(players, badge_id) IN
  IF i = 0
  THEN /\ last' = Event("press", badge_id, button, timestamp, "UnknownPlayer", FALSE, FALSE)
       /\ reg' = Intrude(reg, 0)
       /\ UNCHANGED <<shared, keys_down, published, subs, handles_active, tasks,
                      pushes, saves>>
  ELSE LET p1 == [players[i] EXCEPT !.current_button = button]
           p2 == IF button = START THEN on_start_press(p1, timestamp) ELSE p1
           ps == [players EXCEPT ![i] = p2]
       IN /\ last_button' = last_button
          /\ calculate_buttons(ps, last_button)
          /\ last' = [Event("press", badge_id, button, timestamp, "ok", FALSE,
                            Decide(MaxItem(ps, last_button)))
                        EXCEPT !.rerun = Rerun(ps, last_button), !.pressed = button,
                               !.log = Sent(FALSE, Decide(MaxItem(ps, last_button))),
                               !.peak = Peak(MaxItem(ps, last_button))]
          /\ reg' = Intrude(reg, 0)
          /\ UNCHANGED <<subs, handles_active, tasks>>

on_button_press(button, timestamp, badge_id) ==
  LET i == IndexOf(players, badge_id) IN
  IF i = 0
  THEN /\ last' = Event("press", badge_id, button, timestamp, "UnknownPlayer", FALSE, FALSE)
       /\ reg' = Intrude(reg, 0)
       /\ UNCHANGED <<shared, keys_down, published, subs, handles_active, tasks,
                      pushes, saves>>
  ELSE LET p1 == [players[i] EXCEPT !.current_button = button]
           p2 == IF button = START THEN on_start_press(p1, timestamp) ELSE p1
           ps == [players EXCEPT ![i] = p2]
       IN /\ last_button' = button
          /\ calculate_buttons(ps, button)
          /\ last' = [Event("press", badge_id, button, timestamp, "ok", FALSE,
                            Decide(MaxItem(ps, button)))
                        EXCEPT !.rerun = Rerun(ps, button), !.pressed = button,
                               !.log = Sent(FALSE, Decide(MaxItem(ps, button))),
                               !.peak = Peak(MaxItem(ps, button))]
          /\ reg' = Intrude(reg, 0)
          /\ UNCHANGED <<subs, handles_active, tasks>>

(* -------------------------- on_button_release -------------------------- *)
\* the mutant of on_button_release: line 177 left out, last_button kept
on_button_release_keep_last(button, timestamp, badge_id) ==
  LET i == IndexOf(players, badge_id) IN
  IF i = 0
  THEN /\ last' = Event("release", badge_id, button, timestamp, "UnknownPlayer", FALSE, FALSE)
       /\ reg' = Intrude(reg, 0)
       /\ UNCHANGED <<shared, keys_down, published, subs, handles_active, tasks,
                      pushes, saves>>
  ELSE LET kicked == button = START /\ start_held(players[i], timestamp)
           ps == [players EXCEPT ![i].current_button = None]
       IN /\ last_button' = last_button
          /\ calculate_buttons(ps, last_button)
          /\ last' = [Event("release", badge_id, button, timestamp, "ok", kicked,
                            Decide(MaxItem(ps, last_button)))
                        EXCEPT !.rerun = Rerun(ps, last_button),
                               !.log = Sent(kicked, Decide(MaxItem(ps, last_button))),
                               !.peak = Peak(MaxItem(ps, last_button))]
          /\ reg' = Intrude(reg, 0)
          /\ UNCHANGED <<subs, handles_active, tasks>>

\* lines 160-178 (kick, lines 249-256, only publishes game.kick)
\* the mutant of on_button_release: kick removes the player from the registry, as
\* its docstring says, before the release is processed
on_button_release_kick_removes(button, timestamp, badge_id) ==
  LET i == IndexOf(players, badge_id) IN
  IF i = 0
  THEN /\ last' = Event("release", badge_id, button, timestamp, "UnknownPlayer", FALSE, FALSE)
       /\ reg' = Intrude(reg, 0)
       /\ UNCHANGED <<shared, keys_down, published, subs, handles_active, tasks,
                      pushes, saves>>
  ELSE LET kicked == button = START /\ start_held(players[i], timestamp)
           ps == IF kicked THEN DictDel(players, badge_id)
                 ELSE [players EXCEPT ![i].current_button = None]
       IN /\ last_button' = None
          /\ calculate_buttons(ps, None)
          /\ last' = [Event("release", badge_id, button, timestamp, "ok", kicked,
                            Decide(MaxItem(ps, None)))
                        EXCEPT !.rerun = Rerun(ps, None),
                               !.log = Sent(kicked, Decide(MaxItem(ps, None))),
                               !.peak = Peak(MaxItem(ps, None))]
          /\ reg' = Intrude(reg, 0)
          /\ UNCHANGED <<subs, handles_active, tasks>>

on_button_release(button, timestamp, badge_id) ==
  LET i == IndexOf(players, badge_id) IN
  IF i = 0
  THEN /\ last' = Event("release", badge_id, button, timestamp, "UnknownPlayer", FALSE, FALSE)
       /\ reg' = Intrude(reg, 0)
       /\ UNCHANGED <<shared, keys_down, published, subs, handles_active, tasks,
                      pushes, saves>>
  ELSE LET kicked == button = START /\ start_held(players[i], timestamp)
           ps == [players EXCEPT ![i].current_button = None]
       IN /\ last_button' = None
          /\ calculate_buttons(ps, None)
          /\ last' = [Event("release", badge_id, button, timestamp, "ok", kicked,
                            Decide(MaxItem(ps, None)))
                        EXCEPT !.rerun = Rerun(ps, None),
                               !.log = Sent(kicked, Decide(MaxItem(ps, None))),
                               !.peak = Peak(MaxItem(ps, None))]
          /\ reg' = Intrude(reg, 0)
          /\ UNCHANGED <<subs, handles_active, tasks>>

(* ---------------------------- on_player_join --------------------------- *)
\* a child of register coroutine r has written the registry and finished
ChildDone(rg, r) ==
  IF r = 0 THEN rg
  ELSE [rg EXCEPT ![r] = IF @.pending = 1 THEN Idle
                         ELSE [@ EXCEPT !.pending = @ - 1, !.wrote = TRUE]]

\* lines 266-269: up to the await of the first subscribe; parent is the register
\* coroutine that replays the join, 0 for a player-join event
JoinStart(badge_id, parent) ==
  /\ UNCHANGED <<shared, keys_down, published, subs, handles_active, reg, pushes, saves>>
  /\ tasks' = tasks (+) SetToBag({Task("join", badge_id, "sub_press", parent,
                                       shared' # shared)})
  /\ last' = Event("join", badge_id, None, 0, "suspended", FALSE, FALSE)

\* the mutant of JoinSubscribed: the player is entered into the registry before
\* the release topic is subscribed
JoinSubscribedEarly(t) ==
  /\ t \in TaskSet /\ t.kind = "join" /\ t.pc = "sub_press"
  /\ subs' = [subs EXCEPT ![t.badge_id].press = @ + 1]
  /\ players' = DictSet(players, PlayerInfo(t.badge_id))
  /\ UNCHANGED <<current_button, last_button, press_counter, save_counter,
                 keys_down, published, handles_active, reg, pushes, saves>>
  /\ tasks' = (tasks (-) SetToBag({t}))
                (+) SetToBag({[t EXCEPT !.pc = "sub_release",
                                        !.wrote = @ \/ shared' # shared]})
  /\ last' = Event("join", t.badge_id, None, 0, "suspended", FALSE, FALSE)

\* lines 269-270: the press topic is subscribed; up to the await of the second subscribe
JoinSubscribed(t) ==
  /\ t \in TaskSet /\ t.kind = "join" /\ t.pc = "sub_press"
  /\ subs' = [subs EXCEPT ![t.badge_id].press = @ + 1]
  /\ UNCHANGED <<shared, keys_down, published, handles_active, reg, pushes, saves>>
  /\ tasks' = (tasks (-) SetToBag({t}))
                (+) SetToBag({[t EXCEPT !.pc = "sub_release",
                                        !.wrote = @ \/ shared' # shared]})
  /\ last' = Event("join", t.badge_id, None, 0, "suspended", FALSE, FALSE)

\* lines 270-275: the release topic is subscribed; the record is written, whether or
\* not the badge has one, and its lights are published
JoinDone(t) ==
  /\ t \in TaskSet /\ t.kind = "join" /\ t.pc = "sub_release"
  /\ subs' = [subs EXCEPT ![t.badge_id].release = @ + 1]
  /\ players' = DictSet(players, PlayerInfo(t.badge_id))
  /\ handles_active' = [handles_active EXCEPT ![t.badge_id] = TRUE]
  /\ published' = [published EXCEPT ![t.badge_id] = "WHITE"]
  /\ tasks' = MarkStale(tasks (-) SetToBag({t}), t.badge_id)
  /\ reg' = ChildDone(Intrude(reg, t.parent), t.parent)
  /\ last' = [Event("join", t.badge_id, None, 0, "ok", FALSE, FALSE)
                EXCEPT !.interleaved =
                         t.parent # 0 /\ reg[t.parent].wrote /\ reg[t.parent].intruded,
                       !.log = <<"lights_static">>]
  /\ UNCHANGED <<current_button, last_button, press_counter, save_counter,
                 keys_down, pushes, saves>>

(* ---------------------------- on_player_leave -------------------------- *)
\* lines 285-286: up to the await of the gather over the unsubscribes.  The lookup
\* of an absent badge raises KeyError; unsubscribe of a handle that is no longer
\* active raises before anything is awaited
LeaveStart(badge_id) ==
  LET i == IndexOf(players, badge_id) IN
  /\ reg' = Intrude(reg, 0)
  /\ UNCHANGED <<shared, keys_down, published, pushes, saves>>
  /\ IF i = 0
     THEN /\ last' = Event("leave", badge_id, None, 0, "KeyError", FALSE, FALSE)
          /\ UNCHANGED <<subs, handles_active, tasks>>
     ELSE IF ~handles_active[badge_id]
     THEN /\ last' = Event("leave", badge_id, None, 0, "Exception", FALSE, FALSE)
          /\ UNCHANGED <<subs, handles_active, tasks>>
     ELSE /\ subs' = [subs EXCEPT ![badge_id] =
                        [press |-> @.press - 1, release |-> @.release - 1]]
          /\ handles_active' = [handles_active EXCEPT ![badge_id] = FALSE]
          /\ tasks' = tasks (+) SetToBag({Task("leave", badge_id, "unsubscribe", 0,
                                               shared' # shared)})
          /\ last' = Event("leave", badge_id, None, 0, "suspended", FALSE, FALSE)

\* the mutant of LeaveDone: the leave clears last_button as a release does
LeaveDoneClears(t) ==
  LET i == IndexOf(players, t.badge_id) IN
  /\ t \in TaskSet /\ t.kind = "leave"
  /\ tasks' = tasks (-) SetToBag({t})
  /\ reg' = Intrude(reg, 0)
  /\ last_button' = None
  /\ UNCHANGED <<current_button, press_counter, save_counter,
                 keys_down, subs, pushes, saves>>
  /\ IF i = 0
     THEN /\ last' = [Event("leave", t.badge_id, None, 0, "KeyError", FALSE, FALSE)
                        EXCEPT !.resumed = TRUE, !.stale = t.stale]
          /\ UNCHANGED <<players, published, handles_active>>
     ELSE /\ players' = DictDel(players, t.badge_id)
          /\ published' = [published EXCEPT ![t.badge_id] = "OFF"]
          /\ handles_active' = [handles_active EXCEPT ![t.badge_id] = FALSE]
          /\ last' = [Event("leave", t.badge_id, players[i].current_button, 0, "ok",
                            FALSE, FALSE)
                        EXCEPT !.resumed = TRUE, !.stale = t.stale,
                               !.log = <<"lights_static">>]

\* lines 287-289: after the gather; the registry is looked up again
LeaveDone(t) ==
  LET i == IndexOf(players, t.badge_id) IN
  /\ t \in TaskSet /\ t.kind = "leave"
  /\ tasks' = tasks (-) SetToBag({t})
  /\ reg' = Intrude(reg, 0)
  /\ UNCHANGED <<current_button, last_button, press_counter, save_counter,
                 keys_down, subs, pushes, saves>>
  /\ IF i = 0
     THEN /\ last' = [Event("leave", t.badge_id, None, 0, "KeyError", FALSE, FALSE)
                        EXCEPT !.resumed = TRUE, !.stale = t.stale]
          /\ UNCHANGED <<players, published, handles_active>>
     ELSE /\ players' = DictDel(players, t.badge_id)
          /\ published' = [published EXCEPT ![t.badge_id] = "OFF"]
          /\ handles_active' = [handles_active EXCEPT ![t.badge_id] = FALSE]
          /\ last' = [Event("leave", t.badge_id, players[i].current_button, 0, "ok",
                            FALSE, FALSE)
                        EXCEPT !.resumed = TRUE, !.stale = t.stale,
                               !.log = <<"lights_static">>]

(* ----------------------------- game_register --------------------------- *)
\* lines 147-150: up to the await of the remote call
RegisterStart(r) ==
  /\ reg[r].pc = "idle"
  /\ \A q \in DOMAIN reg : q < r => reg[q].pc # "idle"
  /\ reg' = [reg EXCEPT ![r] = [Idle EXCEPT !.pc = "call"]]
  /\ last' = Event("register", 0, None, 0, "suspended", FALSE, FALSE)
  /\ UNCHANGED <<shared, keys_down, published, subs, handles_active, tasks, pushes, saves>>

\* lines 152-154: the call returned an error
RegisterRejected(r) ==
  /\ reg[r].pc = "call"
  /\ reg' = [reg EXCEPT ![r] = Idle]
  /\ last' = Event("register", 0, None, 0, "error", FALSE, FALSE)
  /\ UNCHANGED <<shared, keys_down, published, subs, handles_active, tasks, pushes, saves>>

\* lines 155-158: the call returned the players already joined; gather wraps an
\* on_player_join coroutine for each in a task and is awaited.  The tasks have not
\* run yet: the loop runs what else is ready first
RegisterReplay(r, joined) ==
  /\ reg[r].pc = "call"
  /\ tasks' = tasks (+) SetToBag({Task("join", b, "start", r, FALSE) : b \in joined})
  /\ reg' = [reg EXCEPT ![r] = IF joined = {} THEN Idle
                               ELSE [Idle EXCEPT !.pc = "gather",
                                                 !.pending = Cardinality(joined)]]
  /\ last' = Event("register", 0, None, 0,
                   IF joined = {} THEN "ok" ELSE "suspended", FALSE, FALSE)
  /\ UNCHANGED <<shared, keys_down, published, subs, handles_active, pushes, saves>>

\* lines 266-269 of every join that register coroutine r replays: the tasks gather
\* made are run one after the other, each up to the await of its first subscribe
ReplayStart(r) ==
  LET started == {t \in TaskSet : t.kind = "join" /\ t.parent = r /\ t.pc = "start"}
      Begin(t) == IF t \in started THEN [t EXCEPT !.pc = "sub_press"] ELSE t
      Copies(t) == IF t \in TaskSet THEN CopiesIn(t, tasks) ELSE 0
  IN /\ reg[r].pc = "gather" /\ started # {}
     /\ tasks' = [u \in {Begin(t) : t \in TaskSet} |->
                    IF u.kind = "join" /\ u.parent = r /\ u.pc = "sub_press"
                    THEN Copies(u) + Copies([u EXCEPT !.pc = "start"])
                    ELSE Copies(u)]
     /\ last' = Event("join", 0, None, 0, "suspended", FALSE, FALSE)
     /\ UNCHANGED <<shared, keys_down, published, subs, handles_active, reg,
                    pushes, saves>>

(* ------------------------------ the program ---------------------------- *)
\* lines 112-116
Init ==
  /\ players = <<>>
  /\ current_button = None
  /\ last_button = None
  /\ press_counter = 0
  /\ save_counter = 0
  /\ keys_down = {}
  /\ published = [b \in Badges |-> "NONE"]
  /\ subs = [b \in Badges |-> [press |-> 0, release |-> 0]]
  /\ handles_active = [b \in Badges |-> FALSE]
  /\ tasks = EmptyBag
  /\ reg = [r \in 1..MaxRegisters |-> Idle]
  /\ pushes = 0
  /\ saves = 0
  /\ last = NewEvent("init", 0, None, 0, "ok", FALSE, FALSE, None)

\* the handlers, driven with the badges, buttons and timestamps of a specification;
\* cap bounds the number of decision changes explored, tcap the coroutines
\* suspended at a time and scap the subscriptions made per badge and topic
PressOf(B, Bt, T, cap) ==
  \E b \in B, button \in Bt, t \in T :
     pushes < cap /\ on_button_press(button, t, b)
ReleaseOf(B, Bt, T, cap) ==
  \E b \in B, button \in Bt, t \in T :
     pushes < cap /\ on_button_release(button, t, b)
CanJoin(b, scap) == subs[b].press + JoinTasksOf(b) < scap
JoinOf(B, tcap, scap) ==
  \E b \in B :
     BagCardinality(tasks) < tcap /\ CanJoin(b, scap) /\ JoinStart(b, 0)
JoinResume == \E t \in TaskSet : JoinSubscribed(t) \/ JoinDone(t)
LeaveOf(B, tcap) == \E b \in B : BagCardinality(tasks) < tcap /\ LeaveStart(b)
LeaveResume == \E t \in TaskSet : LeaveDone(t)
RegisterOf(B, tcap, scap) ==
  \E r \in 1..MaxRegisters :
     \/ RegisterStart(r)
     \/ RegisterRejected(r)
     \/ ReplayStart(r)
     \/ \E joined \in SUBSET B :
          /\ BagCardinality(tasks) + Cardinality(joined) <= tcap
          /\ \A b \in joined : CanJoin(b, scap)
          /\ RegisterReplay(r, joined)

\* voting: every badge, the buttons a and b
NextVote ==
  \/ PressOf(Badges, {"a", "b"}, {1}, MaxPushes)
  \/ ReleaseOf(Badges, {"a", "b"}, {1}, MaxPushes)
  \/ JoinOf(Badges, VoteTasks, VoteSubs)
  \/ JoinResume
SpecVote == Init /\ [][NextVote]_vars

\* the players' lifecycle: joins, leaves and re-registration of two badges
NextLife ==
  \/ PressOf(LifeBadges, {"a"}, {1}, MaxPushes)
  \/ ReleaseOf(LifeBadges, {"a"}, {1}, MaxPushes)
  \/ JoinOf(LifeBadges, MaxTasks, MaxSubs)
  \/ JoinResume
  \/ LeaveOf(LifeBadges, MaxTasks)
  \/ LeaveResume
  \/ RegisterOf(LifeBadges, MaxTasks, MaxSubs)
SpecLife == Init /\ [][NextLife]_vars

\* the quit rule: one badge, start and a, every timestamp
NextQuit ==
  \/ PressOf(QuitBadges, {START, "a"}, Times, MaxPushes)
  \/ ReleaseOf(QuitBadges, {START, "a"}, Times, MaxPushes)
  \/ JoinOf(QuitBadges, MaxTasks, MaxSubs)
  \/ JoinResume
  \/ LeaveOf(QuitBadges, MaxTasks)
  \/ LeaveResume
SpecQuit == Init /\ [][NextQuit]_vars

\* the checkpoint counters: one badge that alternates between a and b
NextCounter ==
  \/ PressOf(QuitBadges, {"a", "b"}, {1}, MaxPushesCounter)
  \/ ReleaseOf(QuitBadges, {"a", "b"}, {1}, MaxPushesCounter)
  \/ JoinOf(QuitBadges, MaxTasks, MaxSubs)
  \/ JoinResume
SpecCounter == Init /\ [][NextCounter]_vars

(* ------------------------------ properties ----------------------------- *)
\* the highest vote count of any action
MaxCount(ps) ==
  CHOOSE n \in 0..Len(ps) :
     /\ \E x \in ButtonSet : Totals(ps)[x] = n
     /\ \A x \in ButtonSet : Totals(ps)[x] <= n
\* the actions with the highest vote count
Tied(ps) == {x \in ButtonSet : Totals(ps)[x] = MaxCount(ps)}
\* the handler that ran last was a press or release of a registered player, which
\* ends with calculate_buttons
Recomputed == last.op \in {"press", "release"} /\ last.result = "ok"

\* C1: after every recomputation the decided action has the maximal vote count, and
\* whenever last_button is set and has the maximal count the decided action is
\* last_button
C1_MajorityAndRecency ==
  Recomputed =>
    /\ current_button = None => MaxCount(players) = 0
    /\ current_button # None => Totals(players)[current_button] = MaxCount(players)
    /\ (last_button # None /\ last_button \in Tied(players))
         => current_button = last_button
\* two players hold a, one has just pressed b: a wins by majority
C1_Witness ==
  /\ Recomputed
  /\ last_button = "b"
  /\ Totals(players)["a"] = 2 /\ Totals(players)["b"] = 1
  /\ current_button = "a"

\* several actions tie for the maximal count and last_button is unset or not tied
TieWithoutRecency ==
  /\ Recomputed
  /\ MaxCount(players) > 0
  /\ Cardinality(Tied(players)) >= 2
  /\ last_button \notin Tied(players)
\* the tied action held by the earliest-registered player
FirstInRegistry(ps) ==
  ps[CHOOSE i \in DOMAIN ps :
       /\ ps[i].current_button \in Tied(ps)
       /\ \A j \in DOMAIN ps : ps[j].current_button \in Tied(ps) => i <= j].current_button
\* the tied action that comes first among the keys of totals
FirstInButtons(ps) ==
  Buttons[CHOOSE k \in DOMAIN Buttons :
            /\ Buttons[k] \in Tied(ps)
            /\ \A l \in DOMAIN Buttons : Buttons[l] \in Tied(ps) => k <= l]

\* C2 as stated: on a tie that last_button does not settle, the decided action is the
\* tied action held by the earliest-registered player
C2_FirstInRegistryOrder ==
  TieWithoutRecency => current_button = FirstInRegistry(players)

\* C3 as stated: once a leave has removed a player that held an action, the decided
\* action has the maximal vote count over the remaining players, and is none when
\* none of them holds an action
C3_LeaveRecomputes ==
  (last.op = "leave" /\ last.result = "ok" /\ last.button # None) =>
    IF MaxCount(players) = 0 THEN current_button = None
    ELSE current_button # None
         /\ Totals(players)[current_button] = MaxCount(players)

\* C4 as stated: a segment of a join for a badge that is registered leaves the
\* badge's record alone and subscribes nothing
C4_DuplicateJoinRejected ==
  [][\A b \in Badges :
       (last'.op = "join" /\ last'.badge_id = b /\ b \in Keys(players)) =>
          /\ b \in Keys(players')
          /\ players'[IndexOf(players', b)] = players[IndexOf(players, b)]
          /\ subs'[b] = subs[b]]_vars

\* the player whose start release ran last, and for how long start was held
Releaser == players[IndexOf(players, last.badge_id)]
HeldFor == last.timestamp - Releaser.start_press_at
StartReleased ==
  /\ last.op = "release" /\ last.result = "ok" /\ last.button = START
  /\ Releaser.start_press_at \in Times
\* C5: a release of start exactly QUIT_TIME after the recorded start press publishes
\* no kick; one that comes QUIT_TIME + 1 or more after it publishes a kick
C5_QuitBoundary ==
  StartReleased =>
    /\ HeldFor = QUIT_TIME => ~last.kicked
    /\ HeldFor >= QUIT_TIME + 1 => last.kicked
\* start pressed at 1 and released at QUIT_TIME + 1: no kick
C5_Witness ==
  /\ StartReleased
  /\ HeldFor = QUIT_TIME
  /\ ~last.kicked

\* C6 as stated: after 100 decision changes from a counter of zero exactly one
\* checkpoint has been saved and the counter is zero again
C6_SaveOnHundredth ==
  pushes = PRESS_LIMIT => (saves = 1 /\ press_counter = 0)

\* C7: a recomputation calls push_button exactly when it changes the decided
\* action, otherwise the counters and the held key stay as they are; and a
\* recomputation that follows another with nothing written in between changes
\* nothing and calls no push_button
C7_SignalOnlyOnChange ==
  [][(last'.op \in {"press", "release"} /\ last'.result = "ok") =>
       /\ (pushes' # pushes) <=> (current_button' # current_button)
       /\ current_button' = current_button =>
            UNCHANGED <<press_counter, save_counter, keys_down>>
       /\ last'.rerun =>
            (current_button' = current_button /\ pushes' = pushes)]_vars
\* a release recomputed right after a recomputation, nothing written in between,
\* while an action is decided
C7_Witness ==
  /\ Recomputed
  /\ last.rerun
  /\ ~last.pushed
  /\ current_button # None

\* C8 as stated: a leave for a badge that is not in the registry changes neither the
\* registry nor the arbitration state and ends as UnknownPlayer
C8_UnknownLeaveReported ==
  [][(last'.op = "leave" /\ last'.badge_id \notin Keys(players)) =>
       (UNCHANGED shared /\ last'.result = "UnknownPlayer")]_vars

\* C9: a press or release for a badge that is not in the registry changes no
\* player, no decision, no counter, and publishes no lights, kick or key
C9_UnknownInputDropped ==
  [][(last'.op \in {"press", "release"} /\ last'.badge_id \notin Keys(players)) =>
       /\ UNCHANGED <<shared, keys_down, published, pushes, saves>>
       /\ ~last'.kicked /\ ~last'.pushed
       /\ last'.result = "UnknownPlayer"]_vars
\* the player that held start has left; its late release of start, long after the
\* press, is dropped and the decision stays
C9_Witness ==
  /\ last.op = "release" /\ last.result = "UnknownPlayer"
  /\ last.button = START /\ last.timestamp = QUIT_TIME + 2
  /\ current_button = START

\* C10 as stated: no handler writes the registry again after another handler has
\* read or written the shared state since its first write
C10_HandlersAtomic == ~last.interleaved
\* C10: a join, leave, press or release handler never awaits between two of its
\* writes: no suspended join or leave coroutine has written the registry or the
\* arbitration state
C10_SegmentsAtomic == \A t \in TaskSet : ~t.wrote
\* a replayed join completes while another join of the same replay is still
\* waiting for its subscription
C10_Witness ==
  /\ \E r \in DOMAIN reg : reg[r].pc = "gather" /\ reg[r].wrote
  /\ \E t \in TaskSet : t.kind = "join" /\ t.parent # 0
  /\ last.op = "join" /\ last.result = "ok"

(* ------------------------------ push_button ---------------------------- *)
\* C11 as stated: once the decided action has changed for the first time, the keys
\* held down are exactly the key of current_button, none when it is None, and at no
\* time, the run of push_button included, are two keys down together
C11_NeverTwoKeys ==
  /\ Cardinality(keys_down) <= 1 /\ last.peak <= 1
  /\ pushes > 0 =>
       keys_down = IF current_button = None THEN {} ELSE {keycodes[current_button]}
\* the handler that ran last pushed a decision change that reset press_counter:
\* it sent the save sequence
SavedNow == last.pushed /\ press_counter = 0
\* C11: once the decided action has changed for the first time, between handlers
\* the keys held down are exactly the key of current_button, none when it is None;
\* while push_button runs at most the old and the new key are down together, or
\* the old key and the two keys of a save sequence when it saves
C11_OneKeyOfDecision ==
  /\ Cardinality(keys_down) <= 1
  /\ last.peak <= (IF SavedNow THEN 3 ELSE 2)
  /\ pushes > 0 =>
       keys_down = IF current_button = None THEN {} ELSE {keycodes[current_button]}
\* the decision has gone from b to a: the key of a went down before the key of b
\* went up, and only the key of a is down afterwards
C11_Witness ==
  /\ pushes >= 2 /\ last.pushed /\ last.op = "press" /\ last.peak = 2
  /\ current_button = "a" /\ keys_down = {keycodes["a"]}

(* ------------------------------- set_lights ----------------------------- *)
\* the lights calculate_buttons gives a player: GREEN when it holds the decided
\* action (holding nothing while nothing is decided included), RED otherwise
Feedback(p) == IF p.current_button = current_button THEN "GREEN" ELSE "RED"
\* C12: after every recomputation, whether the decision changed or not, every
\* registered player's lights are set and published: GREEN exactly for the players
\* whose current_button equals the decided action, RED for all others
C12_FeedbackForAll ==
  Recomputed =>
    \A i \in DOMAIN players :
       /\ players[i].light_settings = Feedback(players[i])
       /\ published[players[i].badge_id] = Feedback(players[i])
\* a recomputation that decided nothing new, with one player matching and one not
C12_Witness ==
  /\ Recomputed /\ ~last.pushed /\ current_button # None
  /\ \E i, j \in DOMAIN players :
       /\ players[i].light_settings = "GREEN" /\ players[j].light_settings = "RED"
       /\ players[j].current_button = None

(* ------------------------------- zero votes ----------------------------- *)
\* C13: a recomputation that runs while no registered player holds an action decides
\* None, whatever was pressed before
C13_NoVotesNoDecision ==
  (Recomputed /\ \A i \in DOMAIN players : players[i].current_button = None)
     => current_button = None
\* the last holder released after an action had been decided
C13_Witness ==
  /\ Recomputed /\ last.op = "release" /\ last.pushed /\ last.pressed # None
  /\ Len(players) >= 2 /\ \A i \in DOMAIN players : players[i].current_button = None
  /\ current_button = None /\ keys_down = {}
(* ------------------------------- last_button --------------------------- *)
\* C14 as stated: last_button is the action of the most recent press handled for a
\* registered player, None only while there has been no such press
C14_LastIsLatestPress == last_button = last.pressed
\* C14: a press handled for a registered player sets last_button to the pressed
\* action, a release handled for a registered player sets it to None, and nothing
\* else writes it: it is the latest press only until the next release
C14_LatestPressUntilRelease ==
  [][ /\ (last'.op = "press" /\ last'.result = "ok") => last_button' = last'.button
      /\ (last'.op = "release" /\ last'.result = "ok") => last_button' = None
      /\ ~(last'.op \in {"press", "release"} /\ last'.result = "ok")
            => last_button' = last_button ]_vars
\* one player released while another still holds the action pressed last
C14_Witness ==
  /\ Recomputed /\ last.op = "release" /\ last_button = None
  /\ \E i \in DOMAIN players : players[i].current_button = last.pressed
  /\ current_button = last.pressed /\ current_button # None
(* ------------------------------ leave cleanup -------------------------- *)
\* C15: when an on_player_leave for a badge has run to its end, the badge is not in
\* the registry, no press or release subscription of the badge is live, and the
\* lights last published for it are OFF
C15_LeaveCleansUp ==
  (last.op = "leave" /\ last.result = "ok") =>
     /\ last.badge_id \notin Keys(players)
     /\ subs[last.badge_id] = [press |-> 0, release |-> 0]
     /\ published[last.badge_id] = "OFF"
\* C16: an on_player_leave that was suspended in its unsubscribes finds, when it
\* resumes, the registry entry it looked up before: the entry has not been removed
\* in the meantime and has not been replaced by the record of a join that ran to
\* its end in the meantime
C16_LeaveInsideWindow ==
  (last.op = "leave" /\ last.resumed) => (last.result = "ok" /\ ~last.stale)
(* ---------------------------------- kick -------------------------------- *)
\* C17: a release of start that kicks publishes game.kick before anything else the
\* release sends out; the kicked player is still in the registry afterwards,
\* holding nothing and given its lights by the recomputation of that release; and
\* a badge goes out of the registry only in an on_player_leave
C17_KickThenRelease ==
  [][ /\ last'.kicked =>
           /\ last'.op = "release" /\ last'.log[1] = "game.kick"
           /\ last'.log[Len(last'.log)] = "lights_static"
           /\ last'.badge_id \in Keys(players')
           /\ LET p == players'[IndexOf(players', last'.badge_id)] IN
                /\ p.current_button = None
                /\ p.light_settings = (IF current_button' = None THEN "GREEN" ELSE "RED")
                /\ published'[last'.badge_id] = p.light_settings
      /\ \A b \in Keys(players) \ Keys(players') :
           last'.op = "leave" /\ last'.badge_id = b ]_vars
\* the player was kicked, is still registered, and the decision has gone to None
\* with it counted as holding nothing
C17_Witness ==
  /\ last.kicked /\ last.op = "release" /\ last.pushed
  /\ last.log = <<"game.kick", "keys", "lights_static">>
  /\ last.badge_id \in Keys(players) /\ current_button = None
  /\ players[IndexOf(players, last.badge_id)].light_settings = "GREEN"
(* ----------------------------- frame of the vote ------------------------- *)
\* C18: current_button, last_button, press_counter and save_counter are written
\* only by a press or release of a registered player; joins, leaves,
\* re-registrations and presses and releases of unknown badges leave all four as
\* they are
C18_OnlyVotesWrite ==
  [][ ~(last'.op \in {"press", "release"} /\ last'.result = "ok")
        => UNCHANGED <<current_button, last_button, press_counter, save_counter>> ]_vars
\* a leave ran to its end while an action was decided, and the decision, the last
\* press and the counter are what they were
C18_Witness ==
  /\ last.op = "leave" /\ last.result = "ok" /\ last.button = "a"
  /\ current_button = "a" /\ last_button = "a" /\ press_counter = 1

(* ------------------------------ quit by hold ---------------------------- *)
\* C19: game.kick is published only by a release of start of a player that has
\* pressed start since it joined, has held start from that press to this release,
\* and releases more than QUIT_TIME after the press
C19_KickOnlyAfterHold ==
  [][ last'.kicked =>
        LET i == IndexOf(players, last'.badge_id) IN
        /\ last'.op = "release" /\ last'.button = START /\ i # 0
        /\ players[i].current_button = START
        /\ players[i].start_press_at \in Times
        /\ last'.timestamp - players[i].start_press_at > QUIT_TIME ]_vars

(* ------------------------------- hysteresis ----------------------------- *)
\* C20 as stated: a release does not move the decision away from an action that
\* players still hold with the highest vote count after the release
C20_ReleaseKeepsLeader ==
  [][ ( /\ last'.op = "release" /\ last'.result = "ok"
        /\ current_button # None /\ MaxCount(players') > 0
        /\ Totals(players')[current_button] = MaxCount(players') )
       => current_button' = current_button ]_vars
\* C20: when the decided action still has the highest vote count after a release,
\* the release keeps it exactly if it comes first, in the order of the key table,
\* among the actions with that count; otherwise the decision moves to the one
\* that comes first
C20_ReleaseKeepsFirstLeader ==
  [][ ( /\ last'.op = "release" /\ last'.result = "ok"
        /\ current_button # None /\ MaxCount(players') > 0
        /\ Totals(players')[current_button] = MaxCount(players') )
       => /\ current_button' = FirstInButtons(players')
          /\ current_button' = current_button <=> current_button = FirstInButtons(players') ]_vars
\* b was decided and is still held by as many players as a, and the release of a
\* player holding nothing has moved the decision to a
C20_Witness ==
  /\ last.op = "release" /\ last.result = "ok" /\ last.pushed /\ last.peak = 2
  /\ current_button = "a" /\ last.pressed = "b"
  /\ Totals(players)["b"] = MaxCount(players)
  /\ Cardinality({i \in DOMAIN players : players[i].current_button = None}) = 1
====
